---- MODULE Spec2Model ----
(***************************************************************************)
(* Model of macro_toggle.py: the playback controller (MacroTool), its      *)
(* worker thread (_run / do_step / _wait_with_pause), the held-key ledger  *)
(* (HoldState) and the hotkey listener (listen_forever).                   *)
(*                                                                         *)
(* Granularity.  Every read or write of state shared between threads       *)
(* (stop_event, run_event, thread liveness, the ledger, the output device) *)
(* is one step.  The body of a `with self._lock` block of HoldState is one *)
(* step (it touches only the ledger, under the ledger lock).  Acquiring    *)
(* the controller lock is merged with the first access made under it and   *)
(* releasing it with the last one.  ui.syn() changes no state but the      *)
(* event log of the thread that calls it and is merged with the step       *)
(* before it.  Device writes are taken to succeed.                         *)
(***************************************************************************)
EXTENDS Integers, Sequences, FiniteSets, TLC

\* ---- evdev codes used by the macros and hotkeys of the model ----
KEY_A == 30
KEY_B == 48
KEY_E == 18
KEY_Q == 16
KEY_LEFTCTRL == 29
KEY_RIGHTCTRL == 97
KEY_LEFTSHIFT == 42
KEY_RIGHTSHIFT == 54
KEY_F1 == 59
BTN_LEFT == 272
BTN_RIGHT == 273
REL_X == 0
REL_Y == 1
REL_WHEEL == 8

\* the result of a parse_macro_key call that raises ValueError
Unsupported == 0 - 1

\* ---- bounds of the model ----
MaxWorkers == 2     \* thread objects that can exist at once
MaxWait == 2        \* longest wait step, in 50 ms ticks
MaxHist == 4        \* longest press/release history of the ledger round trip
MaxParts == 3       \* most '+'-separated parts of a hotkey spec
MaxKeys == 3        \* longest key list of a combo step

Workers == 1..MaxWorkers
Callers == {1, 2}
\* the EV_KEY codes ensure_uinput declares for the output device: the letters,
\* the digits, space, enter, esc, tab, the shift, ctrl and alt keys, the
\* arrows, F1..F12 and the two mouse buttons
KeyCodes ==
    (1..11) \cup (15..25) \cup {28, 29} \cup (30..38) \cup {42} \cup (44..50)
    \cup {54, 56, 57} \cup (59..68) \cup {87, 88, 97, 100, 103, 105, 106, 108}
    \cup {BTN_LEFT, BTN_RIGHT}

\* ---- output events ----
EvKey(c, v) == <<"EV_KEY", c, v>>
EvRel(a, v) == <<"EV_REL", a, v>>
EvSyn == <<"EV_SYN", 0, 0>>

\* ---- sequence helpers ----
Range(s) == {s[i] : i \in 1..Len(s)}

Reverse(s) == [i \in 1..Len(s) |-> s[Len(s) + 1 - i]]

RECURSIVE Flatten(_)
Flatten(ss) == IF ss = <<>> THEN <<>> ELSE Head(ss) \o Flatten(Tail(ss))

\* list(self._held): the codes of the set in some order
ListOf(S) == {s \in [1..Cardinality(S) -> S] : Range(s) = S}

\* ---- macro steps (the dicts of config["macro"]) ----
Step(t, key, action, keys, button, n, x, y, mode) ==
    [type |-> t, key |-> key, action |-> action, keys |-> keys,
     button |-> button, n |-> n, x |-> x, y |-> y, mode |-> mode]

Wait(ticks) == Step("wait", "", "", <<>>, "", ticks, 0, 0, "")
Key(key, action) == Step("key", key, action, <<>>, "", 0, 0, 0, "")
Combo(keys) == Step("combo", "", "", keys, "", 0, 0, 0, "")
MouseClick(button, count) == Step("mouse_click", "", "", <<>>, button, count, 0, 0, "")
MouseButton(button, action) == Step("mouse_button", "", action, <<>>, button, 0, 0, 0, "")
MouseMove(mode, x, y) == Step("mouse_move", "", "", <<>>, "", 0, x, y, mode)
MouseScroll(dy) == Step("mouse_scroll", "", "", <<>>, "", 0, 0, dy, "")

\* parse_macro_key on the key names the macros of the model use
parse_macro_key(raw) ==
    CASE raw = "a" -> KEY_A
      [] raw = "b" -> KEY_B
      [] raw = "e" -> KEY_E
      [] raw = "Key.shift" -> KEY_LEFTSHIFT
      [] raw = "Key.ctrl" -> KEY_LEFTCTRL
      [] OTHER -> Unsupported

BtnCode(button) == IF button = "left" THEN BTN_LEFT ELSE BTN_RIGHT

Max(a, b) == IF a >= b THEN a ELSE b
Min(a, b) == IF a <= b THEN a ELSE b

\* micro-operations of a step: a device write, a sync, a ledger update, a raise
OpWrite(ev) == [op |-> "write", ev |-> ev]
OpSyn == [op |-> "syn", ev |-> EvSyn]
OpMarkDown(c) == [op |-> "mark_down", ev |-> EvKey(c, 1)]
OpMarkUp(c) == [op |-> "mark_up", ev |-> EvKey(c, 0)]
OpRaise == [op |-> "raise", ev |-> EvSyn]

TapOps(c) == <<OpWrite(EvKey(c, 1)), OpWrite(EvKey(c, 0)), OpSyn>>
PressOps(c) == <<OpWrite(EvKey(c, 1)), OpSyn, OpMarkDown(c)>>
ReleaseOps(c) == <<OpWrite(EvKey(c, 0)), OpSyn, OpMarkUp(c)>>

KeyOps(step) ==
    LET code == parse_macro_key(step.key) IN
    IF code = Unsupported THEN <<OpRaise>>
    ELSE CASE step.action = "tap" -> TapOps(code)
           [] step.action = "press" -> PressOps(code)
           [] step.action = "release" -> ReleaseOps(code)
           [] OTHER -> <<OpRaise>>

\* a combo that releases the keys in the order it pressed them
ComboOps_SameOrder(step) ==
    LET codes == [i \in 1..Len(step.keys) |-> parse_macro_key(step.keys[i])] IN
    IF Unsupported \in Range(codes) THEN <<OpRaise>>
    ELSE [i \in 1..Len(codes) |-> OpWrite(EvKey(codes[i], 1))]
         \o [i \in 1..Len(codes) |-> OpWrite(EvKey(codes[i], 0))]
         \o <<OpSyn>>

ComboOps(step) ==
    LET codes == [i \in 1..Len(step.keys) |-> parse_macro_key(step.keys[i])] IN
    IF Unsupported \in Range(codes) THEN <<OpRaise>>
    ELSE [i \in 1..Len(codes) |-> OpWrite(EvKey(codes[i], 1))]
         \o [i \in 1..Len(codes) |-> OpWrite(EvKey(Reverse(codes)[i], 0))]
         \o <<OpSyn>>

MouseClickOps(step) ==
    Flatten([i \in 1..Max(1, step.n) |-> TapOps(BtnCode(step.button))])

MouseButtonOps(step) ==
    LET btn_code == BtnCode(step.button) IN
    CASE step.action = "tap" -> TapOps(btn_code)
      [] step.action = "press" -> PressOps(btn_code)
      [] step.action = "release" -> ReleaseOps(btn_code)
      [] OTHER -> <<OpRaise>>

MouseMoveOps(step) ==
    IF step.mode # "relative" THEN <<OpRaise>>
    ELSE <<OpWrite(EvRel(REL_X, step.x)), OpWrite(EvRel(REL_Y, step.y)), OpSyn>>

MouseScrollOps(step) ==
    IF step.y # 0 THEN <<OpWrite(EvRel(REL_WHEEL, step.y)), OpSyn>> ELSE <<>>

\* do_step after its wait branch and its stop_event check: what the step does
StepOps(step) ==
    CASE step.type = "key" -> KeyOps(step)
      [] step.type = "combo" -> ComboOps(step)
      [] step.type = "mouse_click" -> MouseClickOps(step)
      [] step.type = "mouse_button" -> MouseButtonOps(step)
      [] step.type = "mouse_move" -> MouseMoveOps(step)
      [] step.type = "mouse_scroll" -> MouseScrollOps(step)
      [] OTHER -> <<OpRaise>>

\* ---- initial configurations ----
MacroHold == <<Key("a", "press"), Wait(1), Key("a", "release")>>
MacroTwo == <<Key("a", "press"), MouseButton("left", "press"), Wait(MaxWait)>>
MacroTap == <<Key("a", "tap")>>
MacroPressTap == <<Key("a", "press"), MouseButton("left", "tap")>>
MacroPressWait == <<Key("a", "press"), Wait(1)>>
Macros == {MacroHold, MacroTwo, MacroTap, MacroPressTap}

VARIABLES
    macro,          \* self.macro
    loop,           \* self.loop
    hk_spec,        \* a hotkey spec string, as its '+'-separated parts
    hk_state,       \* parse_hotkey(hk_spec): "new", "returned", "raised"
    stop_event,     \* self.stop_event.is_set()
    run_event,      \* self.run_event.is_set()
    thread,         \* self.thread: 0 is None, else a thread object
    lock,           \* owner of self.lock, 0 when free
    held,           \* HoldState._held
    paused_restore, \* self._paused_restore
    out,            \* output device: per key code "up", or what drove it down
    wpc,            \* per thread object: where the thread is in _run
    widx,           \* index of the step of the for loop (1-based)
    wk,             \* index of the next micro-operation of the step
    wrem,           \* remaining of _wait_with_pause, in ticks
    wcodes,         \* codes of the worker's release_all still to write
    wlog,           \* events the worker wrote in its current step
    wopen,          \* ticks subtracted in this wait that elapsed with the gate open
    wclosed,        \* ticks subtracted in this wait that elapsed with the gate closed
    cpc,            \* per calling thread: where it is in a controller operation
    cop,            \* the operation the thread called (kept until its next call)
    cin,            \* the operation it is in (trigger: the one dispatched)
    ccodes,         \* codes of release_all / release_all_return
    ci,             \* codes of ccodes written so far, or index into _paused_restore
    clog,           \* events the operation wrote (kept until the next call)
    cprev,          \* "stop": the call is a stop() after a stop(), no worker alive;
                    \* "pause": a pause() or resume() after a pause() that acted
    atFirst,        \* PlaybackState at the first read of the thread's trigger()
    heldAtPause,    \* ledger at the snapshot of the last pause
    touched,        \* the worker took a step since that snapshot
    pressed,        \* listen_forever: pressed
    trig_armed,     \* listen_forever: trig_armed
    quit_armed,     \* listen_forever: quit_armed
    trigger_req,    \* self.trigger_req
    quit_req,       \* self.quit_req (<<>> with hasQuit FALSE: None)
    hasQuit,        \* self.quit_req is not None
    listening,      \* listen_forever has not exited
    lastEv,         \* what the last event did: [sat, wasSat, fired, quit]
    hist            \* press/release history of the ledger round trip

cfgVars == <<macro, loop, hk_spec, hk_state>>
ctlVars == <<stop_event, run_event, thread, lock, held, paused_restore, out>>
wVars == <<wpc, widx, wk, wrem, wcodes, wlog, wopen, wclosed>>
cVars == <<cpc, cop, cin, ccodes, ci, clog, cprev, atFirst>>
ghostVars == <<heldAtPause, touched>>
lVars == <<pressed, trig_armed, quit_armed, trigger_req, quit_req, hasQuit,
           listening, lastEv>>
vars == <<cfgVars, ctlVars, wVars, cVars, ghostVars, lVars, hist>>

NoEv == [sat |-> FALSE, wasSat |-> FALSE, fired |-> FALSE, quit |-> FALSE]

\* MacroTool.__init__ (and HoldState.__init__), for a given configuration
InitCtl ==
    /\ stop_event = FALSE
    /\ run_event = FALSE
    /\ thread = 0
    /\ lock = 0
    /\ held = {}
    /\ paused_restore = <<>>
    /\ out = [c \in KeyCodes |-> "up"]
    /\ wpc = [w \in Workers |-> "none"]
    /\ widx = [w \in Workers |-> 0]
    /\ wk = [w \in Workers |-> 0]
    /\ wrem = [w \in Workers |-> 0]
    /\ wcodes = [w \in Workers |-> <<>>]
    /\ wlog = [w \in Workers |-> <<>>]
    /\ wopen = [w \in Workers |-> 0]
    /\ wclosed = [w \in Workers |-> 0]
    /\ cpc = [t \in Callers |-> "idle"]
    /\ cop = [t \in Callers |-> ""]
    /\ cin = [t \in Callers |-> ""]
    /\ ccodes = [t \in Callers |-> <<>>]
    /\ ci = [t \in Callers |-> 0]
    /\ clog = [t \in Callers |-> <<>>]
    /\ cprev = [t \in Callers |-> ""]
    /\ atFirst = [t \in Callers |-> ""]
    /\ heldAtPause = {}
    /\ touched = FALSE
    /\ hist = <<>>

InitListen(treq, hq, qreq) ==
    /\ pressed = {}
    /\ trig_armed = TRUE
    /\ quit_armed = TRUE
    /\ trigger_req = treq
    /\ hasQuit = hq
    /\ quit_req = qreq
    /\ listening = TRUE
    /\ lastEv = NoEv
    /\ hk_spec = <<>>
    /\ hk_state = ""

\* ---- hotkey specs ----
\* A spec string is the sequence of the parts spec.split("+") gives: "" is
\* <<"">>, "+" is <<"", "">>, "<ctrl>+e" is <<"<ctrl>", "e">>.

\* p.strip().lower() on the parts the model uses
StripLower(p) ==
    CASE p = " " -> ""
      [] p = "<Control>" -> "<control>"
      [] OTHER -> p

\* the alternative-set parse_hotkey appends for a token; {} where it raises
TokenAlt(p) ==
    CASE p \in {"<ctrl>", "<control>"} -> {KEY_LEFTCTRL, KEY_RIGHTCTRL}
      [] p = "<shift>" -> {KEY_LEFTSHIFT, KEY_RIGHTSHIFT}
      [] p = "<f1>" -> {KEY_F1}
      [] p = "e" -> {KEY_E}
      [] p = "q" -> {KEY_Q}
      [] OTHER -> {}

\* parse_hotkey: the blank parts dropped, one alternative-set per token, a
\* ValueError for a token of no recognized form
parse_hotkey(spec) ==
    LET parts == SelectSeq([i \in 1..Len(spec) |-> StripLower(spec[i])],
                           LAMBDA q : q # "")
        alts == [i \in 1..Len(parts) |-> TokenAlt(parts[i])]
    IN IF \E i \in 1..Len(alts) : alts[i] = {}
       THEN [raised |-> TRUE, out |-> <<>>]
       ELSE [raised |-> FALSE, out |-> alts]

\* parse_hotkey("<ctrl>+e")
ReqCtrlE == parse_hotkey(<<"<ctrl>", "e">>).out

Init ==
    /\ macro \in Macros
    /\ loop \in BOOLEAN
    /\ InitCtl
    /\ InitListen(ReqCtrlE, FALSE, <<>>)

\* ---- controller state ----
Alive(w) == wpc[w] \notin {"none", "dead"}

\* MacroTool.is_running
is_running == thread # 0 /\ Alive(thread)

\* the output codes in the down state
Down == {c \in KeyCodes : out[c] # "up"}

\* PlaybackState
PlaybackState ==
    IF ~is_running THEN "Idle" ELSE IF run_event THEN "Running" ELSE "Paused"

\* ui.write on the state of the output device
WriteOut(o, ev, why) ==
    IF ev[1] = "EV_KEY" /\ ev[2] \in KeyCodes
    THEN [o EXCEPT ![ev[2]] = IF ev[3] = 0 THEN "up" ELSE why]
    ELSE o

\* ---- the worker: MacroTool._run ----
\* leaving the for loop: by break, or at its end
AfterFor == IF loop THEN "loop_top" ELSE "fin"

WLoopTop(w) ==
    /\ wpc[w] = "loop_top"
    /\ wpc' = [wpc EXCEPT ![w] = IF stop_event THEN "fin" ELSE "loop_gate"]
    /\ UNCHANGED <<widx, wk, wrem, wcodes, wlog, wopen, wclosed>>
    /\ UNCHANGED <<cfgVars, ctlVars, cVars, ghostVars, lVars, hist>>

WLoopGate(w) ==
    /\ wpc[w] = "loop_gate"
    /\ stop_event \/ run_event
    /\ wpc' = [wpc EXCEPT ![w] = "for_head"]
    /\ widx' = [widx EXCEPT ![w] = 1]
    /\ UNCHANGED <<wk, wrem, wcodes, wlog, wopen, wclosed>>
    /\ UNCHANGED <<cfgVars, ctlVars, cVars, ghostVars, lVars, hist>>

WForHead(w) ==
    /\ wpc[w] = "for_head"
    /\ wpc' = [wpc EXCEPT ![w] =
                 IF widx[w] > Len(macro) \/ stop_event THEN AfterFor ELSE "gate"]
    /\ UNCHANGED <<widx, wk, wrem, wcodes, wlog, wopen, wclosed>>
    /\ UNCHANGED <<cfgVars, ctlVars, cVars, ghostVars, lVars, hist>>

WGate(w) ==
    /\ wpc[w] = "gate"
    /\ stop_event \/ run_event
    /\ wpc' = [wpc EXCEPT ![w] = IF stop_event THEN AfterFor ELSE "ds"]
    /\ UNCHANGED <<widx, wk, wrem, wcodes, wlog, wopen, wclosed>>
    /\ UNCHANGED <<cfgVars, ctlVars, cVars, ghostVars, lVars, hist>>

\* do_step returns: the for loop takes the next step
NextStep(w) ==
    /\ wpc' = [wpc EXCEPT ![w] = "for_head"]
    /\ widx' = [widx EXCEPT ![w] = widx[w] + 1]
    /\ wk' = [wk EXCEPT ![w] = 0]

\* do_step without its test of the cancellation signal
Skips_NoCheck(step) == StepOps(step) = <<>>

\* do_step of a non-wait step returns before any write: if stop_event.is_set(),
\* or a mouse_scroll with dy = 0
Skips(step) == stop_event \/ StepOps(step) = <<>>

\* do_step, up to its first device write
WDoStep(w) ==
    /\ wpc[w] = "ds"
    /\ LET step == macro[widx[w]] IN
       IF step.type = "wait"
       THEN /\ wpc' = [wpc EXCEPT ![w] = "w_loop"]
            /\ wrem' = [wrem EXCEPT ![w] = step.n]
            /\ wlog' = [wlog EXCEPT ![w] = <<>>]
            /\ wopen' = [wopen EXCEPT ![w] = 0]
            /\ wclosed' = [wclosed EXCEPT ![w] = 0]
            /\ UNCHANGED <<widx, wk>>
       ELSE /\ IF Skips(step)
               THEN NextStep(w)
               ELSE /\ wpc' = [wpc EXCEPT ![w] = "ops"]
                    /\ wk' = [wk EXCEPT ![w] = 1]
                    /\ UNCHANGED widx
            /\ wlog' = [wlog EXCEPT ![w] = <<>>]
            /\ UNCHANGED <<wrem, wopen, wclosed>>
    /\ UNCHANGED wcodes
    /\ UNCHANGED <<cfgVars, ctlVars, cVars, ghostVars, lVars, hist>>

\* HoldState.mark_down: self._held.add(code)
mark_down(h, code) == h \cup {code}

\* mark_up that forgets nothing
mark_up_Keep(h, code) == h

\* HoldState.mark_up: self._held.discard(code)
mark_up(h, code) == h \ {code}

\* one micro-operation of do_step
WExecOp(w) ==
    /\ wpc[w] = "ops"
    /\ LET ops == StepOps(macro[widx[w]])
           o == ops[wk[w]]
           syn == o.op = "write" /\ wk[w] < Len(ops) /\ ops[wk[w] + 1].op = "syn"
           k2 == IF syn THEN wk[w] + 2 ELSE wk[w] + 1
           why == IF \E j \in wk[w]..Len(ops) : ops[j] = OpMarkDown(o.ev[2])
                  THEN "press" ELSE "tap"
       IN
       /\ out' = IF o.op = "write" THEN WriteOut(out, o.ev, why) ELSE out
       /\ held' = CASE o.op = "mark_down" -> mark_down(held, o.ev[2])
                    [] o.op = "mark_up" -> mark_up(held, o.ev[2])
                    [] OTHER -> held
       /\ wlog' = [wlog EXCEPT ![w] =
                     IF o.op = "write"
                     THEN @ \o (IF syn THEN <<o.ev, EvSyn>> ELSE <<o.ev>>)
                     ELSE IF o.op = "syn" THEN @ \o <<EvSyn>> ELSE @]
       /\ IF o.op = "raise"
          THEN /\ wpc' = [wpc EXCEPT ![w] = "fin"]
               /\ UNCHANGED <<widx, wk>>
          ELSE IF k2 > Len(ops)
               THEN NextStep(w)
               ELSE /\ wk' = [wk EXCEPT ![w] = k2]
                    /\ UNCHANGED <<wpc, widx>>
    /\ touched' = TRUE
    /\ UNCHANGED <<wrem, wcodes, wopen, wclosed>>
    /\ UNCHANGED <<stop_event, run_event, thread, lock, paused_restore>>
    /\ UNCHANGED <<cfgVars, cVars, heldAtPause, lVars, hist>>

\* _wait_with_pause: the while condition and the gate test
WWaitLoop(w) ==
    /\ wpc[w] = "w_loop"
    /\ wrem[w] <= 0 \/ stop_event \/ run_event
    /\ IF wrem[w] <= 0 \/ stop_event
       THEN NextStep(w)
       ELSE /\ wpc' = [wpc EXCEPT ![w] = "w_sleep"]
            /\ UNCHANGED <<widx, wk>>
    /\ UNCHANGED <<wrem, wcodes, wlog, wopen, wclosed>>
    /\ UNCHANGED <<cfgVars, ctlVars, cVars, ghostVars, lVars, hist>>

\* _wait_with_pause: stop_event.wait(dt) and the subtraction of the time
\* measured, el: at least dt, more when the thread wakes up late; what goes
\* beyond remaining ends the wait just as remaining = 0 does
WWaitSleep(w) ==
    /\ wpc[w] = "w_sleep"
    /\ IF stop_event
       THEN /\ NextStep(w)
            /\ UNCHANGED <<wrem, wopen, wclosed>>
       ELSE \E el \in Min(1, wrem[w])..wrem[w] :
            /\ wrem' = [wrem EXCEPT ![w] = @ - el]
            /\ wopen' = [wopen EXCEPT ![w] = IF run_event THEN @ + el ELSE @]
            /\ wclosed' = [wclosed EXCEPT ![w] = IF run_event THEN @ ELSE @ + el]
            /\ wpc' = [wpc EXCEPT ![w] = "w_loop"]
            /\ UNCHANGED <<widx, wk>>
    /\ UNCHANGED <<wcodes, wlog>>
    /\ UNCHANGED <<cfgVars, ctlVars, cVars, ghostVars, lVars, hist>>

\* the thread ends: its locals are gone
Die(w) ==
    /\ wpc' = [wpc EXCEPT ![w] = "dead"]
    /\ widx' = [widx EXCEPT ![w] = 0]
    /\ wk' = [wk EXCEPT ![w] = 0]
    /\ wrem' = [wrem EXCEPT ![w] = 0]
    /\ wcodes' = [wcodes EXCEPT ![w] = <<>>]
    /\ wlog' = [wlog EXCEPT ![w] = <<>>]
    /\ wopen' = [wopen EXCEPT ![w] = 0]
    /\ wclosed' = [wclosed EXCEPT ![w] = 0]

\* finally: hold.release_all, the snapshot under the ledger lock; with
\* nothing to release the ui.syn() follows at once
WFinSnap(w) ==
    /\ wpc[w] = "fin"
    /\ \E codes \in ListOf(held) :
         IF codes = <<>>
         THEN /\ wpc' = [wpc EXCEPT ![w] = "end"]
              /\ wlog' = [wlog EXCEPT ![w] = <<EvSyn>>]
              /\ UNCHANGED <<widx, wk, wrem, wcodes, wopen, wclosed>>
         ELSE /\ wpc' = [wpc EXCEPT ![w] = "fin_w"]
              /\ wcodes' = [wcodes EXCEPT ![w] = codes]
              /\ wlog' = [wlog EXCEPT ![w] = <<>>]
              /\ UNCHANGED <<widx, wk, wrem, wopen, wclosed>>
    /\ held' = {}
    /\ touched' = TRUE
    /\ UNCHANGED <<stop_event, run_event, thread, lock, paused_restore, out>>
    /\ UNCHANGED <<cfgVars, cVars, heldAtPause, lVars, hist>>

\* finally: hold.release_all, one ui.write(EV_KEY, c, 0), the last one with
\* the ui.syn()
WFinWrite(w) ==
    /\ wpc[w] = "fin_w"
    /\ out' = WriteOut(out, EvKey(Head(wcodes[w]), 0), "")
    /\ LET last == Len(wcodes[w]) = 1 IN
       /\ wpc' = [wpc EXCEPT ![w] = IF last THEN "end" ELSE "fin_w"]
       /\ wlog' = [wlog EXCEPT ![w] =
                     @ \o <<EvKey(Head(wcodes[w]), 0)>>
                       \o (IF last THEN <<EvSyn>> ELSE <<>>)]
    /\ wcodes' = [wcodes EXCEPT ![w] = Tail(@)]
    /\ UNCHANGED <<widx, wk, wrem, wopen, wclosed>>
    /\ touched' = TRUE
    /\ UNCHANGED <<stop_event, run_event, thread, lock, held, paused_restore>>
    /\ UNCHANGED <<cfgVars, cVars, heldAtPause, lVars, hist>>

\* release_all has returned: print("[macro] stopped") and the thread ends;
\* is_running() is true up to here
WEnd(w) ==
    /\ wpc[w] = "end"
    /\ Die(w)
    /\ UNCHANGED <<cfgVars, ctlVars, cVars, ghostVars, lVars, hist>>

WorkerStep(w) ==
    \/ WLoopTop(w)
    \/ WLoopGate(w)
    \/ WForHead(w)
    \/ WGate(w)
    \/ WDoStep(w)
    \/ WExecOp(w)
    \/ WWaitLoop(w)
    \/ WWaitSleep(w)
    \/ WFinSnap(w)
    \/ WFinWrite(w)
    \/ WEnd(w)

\* ---- the controller operations, called by thread t ----
Ops == {"start", "pause", "resume", "stop", "trigger"}

EntryPc(op) ==
    CASE op = "start" -> "s1"
      [] op = "pause" -> "p1"
      [] op = "resume" -> "r1"
      [] op = "stop" -> "st1"
      [] op = "trigger" -> "t1"
      [] op = "request_quit" -> "st1"
      [] op = "release_all_return" -> "ra"

\* the thread calls the operation
Call(t, op) ==
    /\ cpc[t] = "idle"
    /\ cpc' = [cpc EXCEPT ![t] = EntryPc(op)]
    /\ cop' = [cop EXCEPT ![t] = op]
    /\ cin' = [cin EXCEPT ![t] = CASE op = "trigger" -> ""
                                    [] op = "request_quit" -> "stop"
                                    [] OTHER -> op]
    /\ ccodes' = [ccodes EXCEPT ![t] = <<>>]
    /\ ci' = [ci EXCEPT ![t] = 0]
    /\ clog' = [clog EXCEPT ![t] = <<>>]
    /\ cprev' = [cprev EXCEPT ![t] =
                   CASE op = "stop" /\ cin[t] = "stop" /\ ~is_running -> "stop"
                     [] /\ op \in {"pause", "resume"}
                        /\ cin[t] = "pause" /\ clog[t] # <<>> -> "pause"
                     [] OTHER -> ""]
    /\ atFirst' = [atFirst EXCEPT ![t] = ""]

\* the operation returns
Return(t) ==
    /\ cpc' = [cpc EXCEPT ![t] = "idle"]
    /\ ci' = [ci EXCEPT ![t] = 0]
    /\ cprev' = [cprev EXCEPT ![t] = ""]
    /\ atFirst' = [atFirst EXCEPT ![t] = ""]

Goto(t, pc) == cpc' = [cpc EXCEPT ![t] = pc]

\* a thread object not in use, for threading.Thread(target=self._run)
FreeWorkers == {w \in Workers : ~Alive(w)}
NewWorker == CHOOSE w \in FreeWorkers : \A v \in FreeWorkers : w <= v

\* start() without its is_running() test
Start1_NoCheck(t) ==
    /\ cpc[t] = "s1"
    /\ lock = 0
    /\ Goto(t, "s2")
    /\ lock' = t
    /\ UNCHANGED <<stop_event, run_event, thread, held, paused_restore, out>>
    /\ UNCHANGED <<cop, cin, ccodes, ci, clog, atFirst, cprev>>
    /\ UNCHANGED <<cfgVars, wVars, ghostVars, lVars, hist>>

\* start(): with self.lock: if self.is_running(): return
Start1(t) ==
    /\ cpc[t] = "s1"
    /\ lock = 0
    /\ IF is_running
       THEN /\ Return(t)
            /\ UNCHANGED lock
       ELSE /\ Goto(t, "s2")
            /\ lock' = t
            /\ UNCHANGED <<ci, cprev, atFirst>>
    /\ UNCHANGED <<stop_event, run_event, thread, held, paused_restore, out>>
    /\ UNCHANGED <<cop, cin, ccodes, clog>>
    /\ UNCHANGED <<cfgVars, wVars, ghostVars, lVars, hist>>

\* start(): self.stop_event.clear()
Start2(t) ==
    /\ cpc[t] = "s2"
    /\ stop_event' = FALSE
    /\ Goto(t, "s3")
    /\ UNCHANGED <<run_event, thread, lock, held, paused_restore, out>>
    /\ UNCHANGED <<cop, cin, ccodes, ci, clog, atFirst, cprev>>
    /\ UNCHANGED <<cfgVars, wVars, ghostVars, lVars, hist>>

\* start(): self.run_event.set()
Start3(t) ==
    /\ cpc[t] = "s3"
    /\ run_event' = TRUE
    /\ Goto(t, "s4")
    /\ UNCHANGED <<stop_event, thread, lock, held, paused_restore, out>>
    /\ UNCHANGED <<cop, cin, ccodes, ci, clog, atFirst, cprev>>
    /\ UNCHANGED <<cfgVars, wVars, ghostVars, lVars, hist>>

\* start(): clear the stash, create and start the thread, release the lock
Start4(t) ==
    /\ cpc[t] = "s4"
    /\ FreeWorkers # {}
    /\ paused_restore' = <<>>
    /\ thread' = NewWorker
    /\ wpc' = [wpc EXCEPT ![NewWorker] = IF loop THEN "loop_top" ELSE "for_head"]
    /\ widx' = [widx EXCEPT ![NewWorker] = 1]
    /\ lock' = 0
    /\ Return(t)
    /\ UNCHANGED <<stop_event, run_event, held, out>>
    /\ UNCHANGED <<wk, wrem, wcodes, wlog, wopen, wclosed>>
    /\ UNCHANGED <<cop, cin, ccodes, clog>>
    /\ UNCHANGED <<cfgVars, ghostVars, lVars, hist>>

\* pause(): with self.lock: if not self.is_running() ...: return
Pause1(t) ==
    /\ cpc[t] = "p1"
    /\ lock = 0
    /\ IF ~is_running
       THEN /\ Return(t)
            /\ UNCHANGED lock
       ELSE /\ Goto(t, "p2")
            /\ lock' = t
            /\ UNCHANGED <<ci, cprev, atFirst>>
    /\ UNCHANGED <<stop_event, run_event, thread, held, paused_restore, out>>
    /\ UNCHANGED <<cop, cin, ccodes, clog>>
    /\ UNCHANGED <<cfgVars, wVars, ghostVars, lVars, hist>>

\* pause(): ... or self.is_paused(): the is_running() of is_paused()
Pause2(t) ==
    /\ cpc[t] = "p2"
    /\ Goto(t, IF is_running THEN "p3" ELSE "p4")
    /\ UNCHANGED <<ctlVars, cop, cin, ccodes, ci, clog, atFirst, cprev>>
    /\ UNCHANGED <<cfgVars, wVars, ghostVars, lVars, hist>>

\* pause(): ... or self.is_paused(): the run_event.is_set() of is_paused()
Pause3(t) ==
    /\ cpc[t] = "p3"
    /\ IF ~run_event
       THEN /\ Return(t)
            /\ lock' = 0
       ELSE /\ Goto(t, "p4")
            /\ UNCHANGED <<lock, ci, cprev, atFirst>>
    /\ UNCHANGED <<stop_event, run_event, thread, held, paused_restore, out>>
    /\ UNCHANGED <<cop, cin, ccodes, clog>>
    /\ UNCHANGED <<cfgVars, wVars, ghostVars, lVars, hist>>

\* pause(): self.run_event.clear()
Pause4(t) ==
    /\ cpc[t] = "p4"
    /\ run_event' = FALSE
    /\ Goto(t, "ra")
    /\ UNCHANGED <<stop_event, thread, lock, held, paused_restore, out>>
    /\ UNCHANGED <<cop, cin, ccodes, ci, clog, atFirst, cprev>>
    /\ UNCHANGED <<cfgVars, wVars, ghostVars, lVars, hist>>

\* the end of release_all_return in a pause() that leaves its with block
\* without releasing the lock
AfterReleaseAll_KeepLock(t, codes) ==
    /\ paused_restore' = IF cin[t] = "pause" THEN codes ELSE paused_restore
    /\ lock' = lock
    /\ ccodes' = [ccodes EXCEPT ![t] =
                    IF cin[t] = "release_all_return" THEN codes ELSE <<>>]
    /\ IF cin[t] = "stop"
       THEN /\ Goto(t, "st3")
            /\ ci' = [ci EXCEPT ![t] = 0]
            /\ UNCHANGED <<cprev, atFirst>>
       ELSE Return(t)

\* after the ui.syn() of release_all / release_all_return with result codes:
\* pause() stores the result and releases the lock, stop() goes on to its lock,
\* a direct call returns the result
AfterReleaseAll(t, codes) ==
    /\ paused_restore' = IF cin[t] = "pause" THEN codes ELSE paused_restore
    /\ lock' = IF cin[t] = "pause" THEN 0 ELSE lock
    /\ ccodes' = [ccodes EXCEPT ![t] =
                    IF cin[t] = "release_all_return" THEN codes ELSE <<>>]
    /\ IF cin[t] = "stop"
       THEN /\ Goto(t, "st3")
            /\ ci' = [ci EXCEPT ![t] = 0]
            /\ UNCHANGED <<cprev, atFirst>>
       ELSE Return(t)

\* HoldState.release_all(_return): codes = list(self._held); self._held.clear()
ReleaseSnap(t) ==
    /\ cpc[t] = "ra"
    /\ \E codes \in ListOf(held) :
         IF codes = <<>>
         THEN /\ clog' = [clog EXCEPT ![t] = @ \o <<EvSyn>>]
              /\ AfterReleaseAll(t, codes)
         ELSE /\ ccodes' = [ccodes EXCEPT ![t] = codes]
              /\ ci' = [ci EXCEPT ![t] = 0]
              /\ Goto(t, "ra_w")
              /\ UNCHANGED <<clog, paused_restore, lock, cprev, atFirst>>
    /\ held' = {}
    /\ heldAtPause' = IF cin[t] = "pause" THEN held ELSE heldAtPause
    /\ touched' = IF cin[t] = "pause" THEN FALSE ELSE touched
    /\ UNCHANGED <<stop_event, run_event, thread, out>>
    /\ UNCHANGED <<cop, cin>>
    /\ UNCHANGED <<cfgVars, wVars, lVars, hist>>

\* HoldState.release_all(_return): one ui.write(EV_KEY, c, 0) of the for loop
ReleaseWrite(t) ==
    /\ cpc[t] = "ra_w"
    /\ LET c == ccodes[t][ci[t] + 1]
           last == ci[t] + 1 = Len(ccodes[t])
       IN
       /\ out' = WriteOut(out, EvKey(c, 0), "")
       /\ clog' = [clog EXCEPT ![t] =
                     @ \o <<EvKey(c, 0)>> \o (IF last THEN <<EvSyn>> ELSE <<>>)]
       /\ IF last
          THEN AfterReleaseAll(t, ccodes[t])
          ELSE /\ ci' = [ci EXCEPT ![t] = @ + 1]
               /\ UNCHANGED <<cpc, ccodes, paused_restore, lock, cprev, atFirst>>
    /\ UNCHANGED <<stop_event, run_event, thread, held>>
    /\ UNCHANGED <<cop, cin>>
    /\ UNCHANGED <<cfgVars, wVars, ghostVars, lVars, hist>>

\* resume(): with self.lock: if not self.is_running() ...: return
Resume1(t) ==
    /\ cpc[t] = "r1"
    /\ lock = 0
    /\ IF ~is_running
       THEN /\ Return(t)
            /\ UNCHANGED lock
       ELSE /\ Goto(t, "r2")
            /\ lock' = t
            /\ UNCHANGED <<ci, cprev, atFirst>>
    /\ UNCHANGED <<stop_event, run_event, thread, held, paused_restore, out>>
    /\ UNCHANGED <<cop, cin, ccodes, clog>>
    /\ UNCHANGED <<cfgVars, wVars, ghostVars, lVars, hist>>

\* resume(): ... or not self.is_paused(): the is_running() of is_paused()
Resume2(t) ==
    /\ cpc[t] = "r2"
    /\ IF ~is_running
       THEN /\ Return(t)
            /\ lock' = 0
       ELSE /\ Goto(t, "r3")
            /\ UNCHANGED <<lock, ci, cprev, atFirst>>
    /\ UNCHANGED <<stop_event, run_event, thread, held, paused_restore, out>>
    /\ UNCHANGED <<cop, cin, ccodes, clog>>
    /\ UNCHANGED <<cfgVars, wVars, ghostVars, lVars, hist>>

\* resume(): ... or not self.is_paused(): the run_event.is_set() of is_paused()
Resume3(t) ==
    /\ cpc[t] = "r3"
    /\ IF run_event
       THEN /\ Return(t)
            /\ lock' = 0
       ELSE /\ Goto(t, IF paused_restore = <<>> THEN "r_fin" ELSE "r_w")
            /\ UNCHANGED <<lock, ci, cprev, atFirst>>
    /\ UNCHANGED <<stop_event, run_event, thread, held, paused_restore, out>>
    /\ UNCHANGED <<cop, cin, ccodes, clog>>
    /\ UNCHANGED <<cfgVars, wVars, ghostVars, lVars, hist>>

\* resume(): self.ui.write(ecodes.EV_KEY, c, 1)
ResumeWrite(t) ==
    /\ cpc[t] = "r_w"
    /\ LET c == paused_restore[ci[t] + 1] IN
       /\ out' = WriteOut(out, EvKey(c, 1), "restore")
       /\ clog' = [clog EXCEPT ![t] = @ \o <<EvKey(c, 1)>>]
    /\ Goto(t, "r_m")
    /\ UNCHANGED <<stop_event, run_event, thread, lock, held, paused_restore>>
    /\ UNCHANGED <<cop, cin, ccodes, ci, atFirst, cprev>>
    /\ UNCHANGED <<cfgVars, wVars, ghostVars, lVars, hist>>

\* resume(): self.hold.mark_down(c)
ResumeMark(t) ==
    /\ cpc[t] = "r_m"
    /\ held' = mark_down(held, paused_restore[ci[t] + 1])
    /\ ci' = [ci EXCEPT ![t] = @ + 1]
    /\ Goto(t, IF ci[t] + 1 = Len(paused_restore) THEN "r_fin" ELSE "r_w")
    /\ UNCHANGED <<stop_event, run_event, thread, lock, paused_restore, out>>
    /\ UNCHANGED <<cop, cin, ccodes, clog, atFirst, cprev>>
    /\ UNCHANGED <<cfgVars, wVars, ghostVars, lVars, hist>>

\* resume(): ui.syn(), clear the stash, self.run_event.set(), release the lock
ResumeFin(t) ==
    /\ cpc[t] = "r_fin"
    /\ clog' = [clog EXCEPT ![t] = @ \o <<EvSyn>>]
    /\ paused_restore' = <<>>
    /\ run_event' = TRUE
    /\ lock' = 0
    /\ Return(t)
    /\ UNCHANGED <<stop_event, thread, held, out>>
    /\ UNCHANGED <<cop, cin, ccodes>>
    /\ UNCHANGED <<cfgVars, wVars, ghostVars, lVars, hist>>

\* stop() without its stop_event.set()
Stop1_NoSet(t) ==
    /\ cpc[t] = "st1"
    /\ Goto(t, "st2")
    /\ UNCHANGED <<ctlVars, cop, cin, ccodes, ci, clog, atFirst, cprev>>
    /\ UNCHANGED <<cfgVars, wVars, ghostVars, lVars, hist>>

\* stop(): self.stop_event.set()
Stop1(t) ==
    /\ cpc[t] = "st1"
    /\ stop_event' = TRUE
    /\ Goto(t, "st2")
    /\ UNCHANGED <<run_event, thread, lock, held, paused_restore, out>>
    /\ UNCHANGED <<cop, cin, ccodes, ci, clog, atFirst, cprev>>
    /\ UNCHANGED <<cfgVars, wVars, ghostVars, lVars, hist>>

\* stop(): self.run_event.set()
Stop2(t) ==
    /\ cpc[t] = "st2"
    /\ run_event' = TRUE
    /\ Goto(t, "ra")
    /\ UNCHANGED <<stop_event, thread, lock, held, paused_restore, out>>
    /\ UNCHANGED <<cop, cin, ccodes, ci, clog, atFirst, cprev>>
    /\ UNCHANGED <<cfgVars, wVars, ghostVars, lVars, hist>>

\* stop(): with self.lock: if self.is_running(): print; and, called by
\* request_quit(), raise SystemExit(0), which ends listen_forever
Stop3(t) ==
    /\ cpc[t] = "st3"
    /\ lock = 0
    /\ Return(t)
    /\ listening' = IF cop[t] = "request_quit" THEN FALSE ELSE listening
    /\ UNCHANGED <<ctlVars, cop, cin, ccodes, clog>>
    /\ UNCHANGED <<pressed, trig_armed, quit_armed, trigger_req, quit_req, hasQuit, lastEv>>
    /\ UNCHANGED <<cfgVars, wVars, ghostVars, hist>>

Dispatch(t, op) ==
    /\ cin' = [cin EXCEPT ![t] = op]
    /\ Goto(t, EntryPc(op))

\* trigger(): if not self.is_running(): self.start()
Trigger1(t) ==
    /\ cpc[t] = "t1"
    /\ atFirst' = [atFirst EXCEPT ![t] = PlaybackState]
    /\ IF ~is_running
       THEN Dispatch(t, "start")
       ELSE /\ Goto(t, "t2")
            /\ UNCHANGED cin
    /\ UNCHANGED <<ctlVars, cop, ccodes, ci, clog, cprev>>
    /\ UNCHANGED <<cfgVars, wVars, ghostVars, lVars, hist>>

\* trigger(): elif self.is_paused(): the is_running() of is_paused()
Trigger2(t) ==
    /\ cpc[t] = "t2"
    /\ IF ~is_running
       THEN Dispatch(t, "pause")
       ELSE /\ Goto(t, "t3")
            /\ UNCHANGED cin
    /\ UNCHANGED <<ctlVars, cop, ccodes, ci, clog, atFirst, cprev>>
    /\ UNCHANGED <<cfgVars, wVars, ghostVars, lVars, hist>>

\* trigger(): elif self.is_paused(): self.resume() else: self.pause()
Trigger3(t) ==
    /\ cpc[t] = "t3"
    /\ Dispatch(t, IF ~run_event THEN "resume" ELSE "pause")
    /\ UNCHANGED <<ctlVars, cop, ccodes, ci, clog, atFirst, cprev>>
    /\ UNCHANGED <<cfgVars, wVars, ghostVars, lVars, hist>>

CallerStep(t) ==
    \/ Start1(t)
    \/ Start2(t)
    \/ Start3(t)
    \/ Start4(t)
    \/ Pause1(t)
    \/ Pause2(t)
    \/ Pause3(t)
    \/ Pause4(t)
    \/ ReleaseSnap(t)
    \/ ReleaseWrite(t)
    \/ Resume1(t)
    \/ Resume2(t)
    \/ Resume3(t)
    \/ ResumeWrite(t)
    \/ ResumeMark(t)
    \/ ResumeFin(t)
    \/ Stop1(t)
    \/ Stop2(t)
    \/ Stop3(t)
    \/ Trigger1(t)
    \/ Trigger2(t)
    \/ Trigger3(t)

\* the listener thread calls an operation of the controller
ListenerCall(op) ==
    /\ Call(1, op)
    /\ UNCHANGED <<cfgVars, ctlVars, wVars, ghostVars, lVars, hist>>

\* ---- the controller with one calling thread (the listener) ----
Next ==
    \/ \E op \in Ops : ListenerCall(op)
    \/ CallerStep(1)
    \/ \E w \in Workers : WorkerStep(w)

Spec == Init /\ [][Next]_vars

\* the scheduler runs a live worker thread, and its timed waits return
SpecFair == Spec /\ WF_vars(\E w \in Workers : WorkerStep(w))

\* the listener thread, once in a controller operation, keeps running; nothing
\* is assumed of the worker
InitCaller ==
    /\ macro = MacroPressWait
    /\ loop \in BOOLEAN
    /\ InitCtl
    /\ InitListen(ReqCtrlE, FALSE, <<>>)

SpecCallerFair == InitCaller /\ [][Next]_vars /\ WF_vars(CallerStep(1))

\* ---- the listener: listen_forever ----
\* hotkey_satisfied that asks for one pressed code in some alternative-set
hotkey_satisfied_Any(p, req) ==
    \E i \in 1..Len(req) : \E code \in req[i] : code \in p

hotkey_satisfied(p, req) ==
    \A i \in 1..Len(req) : \E code \in req[i] : code \in p


\* parse_hotkey("e"), parse_hotkey("q")
ReqE == parse_hotkey(<<"e">>).out
ReqQ == parse_hotkey(<<"q">>).out

ListenKeys == {KEY_LEFTCTRL, KEY_RIGHTCTRL, KEY_E, KEY_Q}

\* the test with the armed flag left out: fires on every event while satisfied
Fires_Level(sat, armed) == sat

\* listen_forever: if sat and trig_armed / if sat and quit_armed
Fires(sat, armed) == sat /\ armed

\* the trigger test that is reached although request_quit() was called
TriggerFires_AfterQuit(quit, sat, armed) == Fires(sat, armed)

\* listen_forever: the trigger test; request_quit() raises SystemExit, so the
\* test is not reached for an event that fired the quit chord
TriggerFires(quit, sat, armed) == ~quit /\ Fires(sat, armed)

\* listen_forever: the body of the for loop for one EV_KEY event, handled once
\* the previous handler has returned; the call of trigger() or request_quit()
\* begins here and goes on as the listener's controller operation.
\* trig_armed is assigned when trigger() has returned; nothing reads it
\* before, so it is assigned here.
ListenEvent(code, value) ==
    /\ listening
    /\ cpc[1] = "idle"
    /\ LET p == CASE value = 1 -> pressed \cup {code}
                  [] value = 0 -> pressed \ {code}
                  [] OTHER -> pressed
           qsat == hasQuit /\ hotkey_satisfied(p, quit_req)
           quit == Fires(qsat, quit_armed)
           sat == hotkey_satisfied(p, trigger_req)
           fire == TriggerFires(quit, sat, trig_armed)
       IN
       /\ pressed' = p
       /\ quit_armed' = IF hasQuit /\ ~quit THEN ~qsat ELSE quit_armed
       /\ trig_armed' = IF quit THEN trig_armed ELSE ~sat
       /\ lastEv' = [sat |-> sat,
                     wasSat |-> hotkey_satisfied(pressed, trigger_req),
                     fired |-> fire, quit |-> quit]
       /\ IF quit THEN Call(1, "request_quit")
          ELSE IF fire THEN Call(1, "trigger")
          ELSE UNCHANGED cVars
    /\ UNCHANGED <<trigger_req, quit_req, hasQuit, listening>>
    /\ UNCHANGED <<cfgVars, ctlVars, wVars, ghostVars, hist>>

InitListenSpec ==
    /\ macro = MacroPressWait
    /\ loop \in BOOLEAN
    /\ InitCtl
    /\ \/ InitListen(ReqCtrlE, FALSE, <<>>)
       \/ InitListen(ReqCtrlE, TRUE, ReqQ)
       \/ InitListen(ReqE, TRUE, ReqQ)
       \/ InitListen(ReqE, TRUE, ReqCtrlE)

NextListen ==
    \/ \E code \in ListenKeys, value \in {0, 1, 2} : ListenEvent(code, value)
    \/ CallerStep(1)
    \/ \E w \in Workers : WorkerStep(w)

SpecListen == InitListenSpec /\ [][NextListen]_vars

\* ---- the controller called from two threads at once ----
ConcMacros == {MacroPressWait}

InitConc ==
    /\ macro \in ConcMacros
    /\ loop \in BOOLEAN
    /\ InitCtl
    /\ InitListen(ReqCtrlE, FALSE, <<>>)

ThreadCall(t, op) ==
    /\ Call(t, op)
    /\ UNCHANGED <<cfgVars, ctlVars, wVars, ghostVars, lVars, hist>>

\* the listener calls start(), stop() and trigger() (which calls pause() and
\* resume()) while a second thread calls start() and stop()
ConcOps(t) == IF t = 1 THEN {"start", "stop", "trigger"} ELSE {"start", "stop"}

NextConc ==
    \/ \E t \in Callers : \E op \in ConcOps(t) : ThreadCall(t, op)
    \/ \E t \in Callers : CallerStep(t)
    \/ \E w \in Workers : WorkerStep(w)

SpecConc == InitConc /\ [][NextConc]_vars

\* ---- the ledger on its own: HoldState driven by one thread ----
HoldCodes == {KEY_A, KEY_B, BTN_LEFT}

\* hold.mark_down(code)
HoldPress(c) ==
    /\ cpc[1] = "idle"
    /\ Len(hist) < MaxHist
    /\ held' = mark_down(held, c)
    /\ hist' = Append(hist, <<"press", c>>)
    /\ UNCHANGED <<stop_event, run_event, thread, lock, paused_restore, out>>
    /\ UNCHANGED <<cfgVars, wVars, cVars, ghostVars, lVars>>

\* hold.mark_up(code)
HoldRelease(c) ==
    /\ cpc[1] = "idle"
    /\ Len(hist) < MaxHist
    /\ held' = mark_up(held, c)
    /\ hist' = Append(hist, <<"release", c>>)
    /\ UNCHANGED <<stop_event, run_event, thread, lock, paused_restore, out>>
    /\ UNCHANGED <<cfgVars, wVars, cVars, ghostVars, lVars>>

\* hold.release_all_return(ui) is called
HoldReleaseAll ==
    /\ Len(hist) < MaxHist + 2
    /\ Call(1, "release_all_return")
    /\ hist' = Append(hist, <<"release_all", 0>>)
    /\ UNCHANGED <<cfgVars, ctlVars, wVars, ghostVars, lVars>>

InitHold ==
    /\ macro = MacroTap
    /\ loop = FALSE
    /\ InitCtl
    /\ InitListen(ReqCtrlE, FALSE, <<>>)

NextHold ==
    \/ \E c \in HoldCodes : HoldPress(c)
    \/ \E c \in HoldCodes : HoldRelease(c)
    \/ HoldReleaseAll
    \/ ReleaseSnap(1)
    \/ ReleaseWrite(1)

SpecHold == InitHold /\ [][NextHold]_vars


\* ---- macros with a step on which do_step raises ----
\* the second step raises; the third would press KEY_B
MacroUnknownType == <<Key("a", "press"), Step("bogus", "", "", <<>>, "", 0, 0, 0, ""), Key("b", "press")>>
MacroBadKey == <<Key("a", "press"), Key("Key.nokey", "tap"), Key("b", "press")>>
MacroBadAction == <<MouseButton("left", "press"), MouseButton("left", "hold"), Key("b", "press")>>
MacroBadMode == <<Wait(1), MouseMove("absolute", 1, 1), Key("b", "press")>>
RaiseMacros == {MacroUnknownType, MacroBadKey, MacroBadAction, MacroBadMode}

InitRaise ==
    /\ macro \in RaiseMacros
    /\ loop \in BOOLEAN
    /\ InitCtl
    /\ InitListen(ReqCtrlE, FALSE, <<>>)

SpecRaise == InitRaise /\ [][Next]_vars

\* ---- macros that tap, combo or click a code an earlier press holds ----
MacroPressTapSame == <<Key("a", "press"), Key("a", "tap"), Wait(1)>>
MacroPressClickSame == <<MouseButton("left", "press"), MouseClick("left", 1)>>
MacroPressComboSame == <<Key("a", "press"), Combo(<<"a", "b">>)>>
LedgerMacros == {MacroPressTapSame, MacroPressClickSame, MacroPressComboSame}

InitLedger ==
    /\ macro \in LedgerMacros
    /\ loop \in BOOLEAN
    /\ InitCtl
    /\ InitListen(ReqCtrlE, FALSE, <<>>)

SpecLedger == InitLedger /\ [][Next]_vars

\* ---- macros with every kind of step ----
MacroKindsKey == <<Key("a", "press"), Combo(<<"a", "b">>), MouseClick("left", 1)>>
MacroKindsMouse ==
    <<MouseButton("right", "press"), MouseMove("relative", 1, 1), MouseScroll(1), Wait(1)>>
KindMacros == {MacroKindsKey, MacroKindsMouse}

InitKinds ==
    /\ macro \in KindMacros
    /\ loop \in BOOLEAN
    /\ InitCtl
    /\ InitListen(ReqCtrlE, FALSE, <<>>)

SpecKinds == InitKinds /\ [][Next]_vars

\* ---- a combo step for every key list ----
ComboKeys == {"a", "b", "e"}
ComboLists == UNION {[1..n -> ComboKeys] : n \in 0..MaxKeys}

\* a press, so that the ledger is not empty, then the combo, then a wait
MacroCombo(keys) == <<Key("a", "press"), Combo(keys), Wait(1)>>

InitCombo ==
    /\ \E keys \in ComboLists : macro = MacroCombo(keys)
    /\ loop \in BOOLEAN
    /\ InitCtl
    /\ InitListen(ReqCtrlE, FALSE, <<>>)

\* the listener starts the run and the worker plays the macro
NextCombo ==
    \/ ListenerCall("start")
    \/ Start1(1)
    \/ Start2(1)
    \/ Start3(1)
    \/ Start4(1)
    \/ \E w \in Workers : WorkerStep(w)

SpecCombo == InitCombo /\ [][NextCombo]_vars

\* ---- parse_hotkey and hotkey_satisfied on their own ----
RawParts == {"", " ", "<ctrl>", "<Control>", "<shift>", "e", "<f1>", "<foo>"}

HotkeySpecs ==
    UNION {[1..n -> RawParts] : n \in 1..MaxParts}

HotkeyCodes ==
    {KEY_LEFTCTRL, KEY_RIGHTCTRL, KEY_LEFTSHIFT, KEY_RIGHTSHIFT, KEY_E, KEY_F1}

\* self.trigger_req = parse_hotkey(self.trigger_spec)
HkParse ==
    /\ hk_state = "new"
    /\ LET blank == Len(hk_spec) = 1 /\ StripLower(hk_spec[1]) = ""
           r == IF blank THEN [raised |-> TRUE, out |-> <<>>]
                ELSE parse_hotkey(hk_spec)
       IN
       /\ hk_state' = IF r.raised THEN "raised" ELSE "returned"
       /\ trigger_req' = r.out
    /\ UNCHANGED <<macro, loop, hk_spec>>
    /\ UNCHANGED <<pressed, trig_armed, quit_armed, quit_req, hasQuit, listening, lastEv>>
    /\ UNCHANGED <<ctlVars, wVars, cVars, ghostVars, hist>>

\* sat = hotkey_satisfied(pressed, self.trigger_req), for a pressed-set P
HkSatisfied(P) ==
    /\ hk_state = "returned"
    /\ pressed' = P
    /\ lastEv' = [lastEv EXCEPT !.sat = hotkey_satisfied(P, trigger_req)]
    /\ UNCHANGED <<trig_armed, quit_armed, trigger_req, quit_req, hasQuit, listening>>
    /\ UNCHANGED <<cfgVars, ctlVars, wVars, cVars, ghostVars, hist>>

InitHotkey ==
    /\ macro = MacroTap
    /\ loop = FALSE
    /\ InitCtl
    /\ pressed = {}
    /\ trig_armed = TRUE
    /\ quit_armed = TRUE
    /\ trigger_req = <<>>
    /\ hasQuit = FALSE
    /\ quit_req = <<>>
    /\ listening = FALSE
    /\ lastEv = NoEv
    /\ hk_spec \in HotkeySpecs
    /\ hk_state = "new"

NextHotkey ==
    \/ HkParse
    \/ \E P \in SUBSET HotkeyCodes : HkSatisfied(P)

SpecHotkey == InitHotkey /\ [][NextHotkey]_vars

\* ---- properties ----
NoWorkerAlive == \A w \in Workers : ~Alive(w)
ListenerIdle == cpc[1] = "idle"

\* C1: whenever no worker thread is alive and the listener is in no controller
\* operation, the ledger is empty and no output code is in the down state.
C1_NoStuckKeyWhenIdle ==
    (NoWorkerAlive /\ ListenerIdle) => (held = {} /\ Down = {})

\* pause() found the controller Running, did its work and has returned, and
\* the listener has made no further call
AfterPause == ListenerIdle /\ cin[1] = "pause" /\ clog[1] # <<>>

\* output codes that a press step, or resume(), drove down
HeldDown == {c \in KeyCodes : out[c] \in {"press", "restore"}}

\* C2: after pause() has returned from Running the ledger is empty, no code
\* driven down by a press step is down, and the codes that were held are in
\* the stash.
C2_PauseLeavesNothingHeld ==
    AfterPause =>
        /\ held = {}
        /\ HeldDown = {}
        /\ heldAtPause \subseteq Range(paused_restore)

\* C3: at most one worker thread is alive at any moment, whatever the calls
\* and their interleaving.
C3_AtMostOneWorker == Cardinality({w \in Workers : Alive(w)}) <= 1

\* start() called after stop() while the previous worker had not yet exited
\* has returned without doing anything
C3_Witness ==
    /\ cpc[1] = "idle" /\ cop[1] = "start"
    /\ cpc[2] = "idle" /\ cop[2] = "stop"
    /\ stop_event /\ is_running

\* two calling threads are never both between their first and their last
\* access of the controller's shared state
Active(t) == cpc[t] # "idle" /\ cpc[t] # EntryPc(cop[t])

\* C4: the controller operations are mutually exclusive: no two threads are
\* inside an operation at once.
C4_MutuallyExclusive == ~(Active(1) /\ Active(2))

\* the listener's stop() has just set the cancellation signal, a worker alive
StopCalled == cin[1] = "stop" /\ cpc[1] = "st2" /\ is_running

\* a step of the listener in a stop() that follows a stop() and was called
\* with no worker alive
RepeatedStopStep ==
    cin[1] = "stop" /\ cprev[1] = "stop" /\ cpc'[1] # cpc[1]

\* C5: stop() called while a worker is alive leads to no worker being alive,
\* and a stop() repeated once the worker is gone changes nothing of the
\* controller, the ledger and the output.
C5_StopLeadsToIdle ==
    /\ StopCalled ~> NoWorkerAlive
    /\ [][RepeatedStopStep => UNCHANGED ctlVars]_vars

\* stop() is called while the worker of a looping macro is blocked at the
\* closed pause gate
C5_Witness ==
    /\ StopCalled /\ loop /\ ~run_event
    /\ wpc[thread] \in {"loop_gate", "gate", "w_loop"}

\* C6: the listener calls trigger() on an event exactly when the event makes
\* the trigger chord satisfied and the event before left it unsatisfied, so
\* once per rising edge and never again while the chord stays satisfied
\* (repeat events, other keys going down or up); the armed flag is true
\* exactly when the last event left the chord unsatisfied.
C6_EdgeTriggered ==
    (listening /\ ListenerIdle) =>
        /\ lastEv.fired <=> (lastEv.sat /\ ~lastEv.wasSat)
        /\ trig_armed <=> ~hotkey_satisfied(pressed, trigger_req)

\* an event handled while the chord stays satisfied after trigger() started
\* the macro: no second call
C6_Witness ==
    /\ listening /\ ListenerIdle
    /\ lastEv.sat /\ lastEv.wasSat /\ ~lastEv.fired
    /\ cop[1] = "trigger" /\ is_running

\* trigger() of the listener has chosen its operation, which has not begun
TrigDispatched == cop[1] = "trigger" /\ cpc[1] \in {"s1", "p1", "r1"}

\* the operation the specification gives for a playback state
DispatchOf(state) ==
    CASE state = "Idle" -> "start"
      [] state = "Paused" -> "resume"
      [] OTHER -> "pause"

\* trigger() of the listener has returned
AfterTrigger == ListenerIdle /\ cop[1] = "trigger"

\* on a looping macro the operation trigger() called leaves the controller in
\* the next state of the cycle Idle, Running, Paused, Running, ...
LoopCycle ==
    (loop /\ AfterTrigger) =>
        PlaybackState = (IF cin[1] = "pause" THEN "Paused" ELSE "Running")

\* without a quit the cancellation signal stays clear
NoCancelByTrigger == cop[1] # "request_quit" => ~stop_event

\* C7 as stated: trigger() calls start() when the controller is Idle,
\* resume() when it is Paused and pause() when it is Running (the state being
\* the one at the call), a looping macro cycles Idle, Running, Paused,
\* Running, ..., and trigger() never sets the cancellation signal.
C7_DispatchByState ==
    /\ TrigDispatched => cin[1] = DispatchOf(atFirst[1])
    /\ LoopCycle
    /\ NoCancelByTrigger

\* the worker is about to return from a wait that ran out without a cancel
WaitRanOut(w) == wpc[w] = "w_loop" /\ wrem[w] <= 0 /\ ~stop_event

\* C8: a wait of d ticks subtracts from its remaining time only time that
\* elapsed with the gate open, and does not run out before d ticks of
\* gate-open time have accumulated.
C8_PausedTimeNotCounted ==
    \A w \in Workers :
        /\ wclosed[w] = 0
        /\ WaitRanOut(w) => wopen[w] >= macro[widx[w]].n

\* the step by which a resume() that re-pressed the stash returns, called by
\* the listener right after a pause() that took effect
ResumeReturns ==
    /\ cin[1] = "resume" /\ cprev[1] = "pause"
    /\ cpc[1] = "r_fin" /\ cpc'[1] = "idle"

\* the events resume() must emit for the set S: one down per code, one sync
RestoreLogs(S) ==
    {[i \in 1..Len(codes) |-> EvKey(codes[i], 1)] \o <<EvSyn>> : codes \in ListOf(S)}

\* the state after pause(); resume() for the ledger S pause() found
RoundTrip ==
    /\ held = heldAtPause
    /\ paused_restore = <<>>
    /\ run_event
    /\ clog[1] \in RestoreLogs(heldAtPause)

\* a step of the listener in a pause() called right after a pause() that
\* took effect
SecondPauseStep ==
    cin[1] = "pause" /\ cprev[1] = "pause" /\ cpc'[1] # cpc[1]

\* C9: for the set S of codes in the ledger when pause() takes effect,
\* pause() followed by resume() leaves the ledger equal to S, the stash empty
\* and the gate open, and resume() emits one down event per code of S and
\* then one sync; a second pause() with no resume() in between changes no
\* state and emits no event.
C9_PauseResumeRoundTrip ==
    [][/\ ResumeReturns => RoundTrip'
       /\ SecondPauseStep =>
            UNCHANGED <<stop_event, run_event, thread, held, paused_restore, out, clog>>]_vars

RECURSIVE Outstanding(_)
\* the codes pressed and not released afterwards in a history, counted from
\* the last release-all
Outstanding(h) ==
    IF h = <<>> THEN {}
    ELSE LET e == h[Len(h)]
             before == Outstanding(SubSeq(h, 1, Len(h) - 1))
         IN CASE e[1] = "press" -> before \cup {e[2]}
              [] e[1] = "release" -> before \ {e[2]}
              [] OTHER -> {}

\* release-all has returned
AfterReleaseAllCall ==
    /\ ListenerIdle /\ cin[1] = "release_all_return"
    /\ hist # <<>> /\ hist[Len(hist)][1] = "release_all"

\* the history before the release-all that has returned
Before == SubSeq(hist, 1, Len(hist) - 1)

\* that release-all follows another one immediately
SecondReleaseAll ==
    AfterReleaseAllCall /\ Before # <<>> /\ Before[Len(Before)][1] = "release_all"

\* the key events of an event sequence
KeyEvents(log) == SelectSeq(log, LAMBDA e : e[1] = "EV_KEY")

\* the up events for a list of codes, in its order
Ups(codes) == [i \in 1..Len(codes) |-> EvKey(codes[i], 0)]

\* release-all emitted one up event per outstanding code, returned those
\* codes and left the ledger empty
ReleasedOutstanding ==
    /\ held = {}
    /\ Range(ccodes[1]) = Outstanding(Before)
    /\ Len(ccodes[1]) = Cardinality(Outstanding(Before))
    /\ KeyEvents(clog[1]) = Ups(ccodes[1])

\* C10 as stated: after any sequence of press and release actions release-all
\* emits one up event for each code pressed and not released afterwards,
\* returns those codes and empties the ledger; a second release-all right
\* after it emits nothing and returns no codes.
C10_SecondEmitsNothing ==
    /\ AfterReleaseAllCall => ReleasedOutstanding
    /\ SecondReleaseAll => clog[1] = <<>> /\ ccodes[1] = <<>>

\* C10: after any sequence of press and release actions release-all emits
\* one up event for each code pressed and not released afterwards and then
\* one sync, returns those codes and empties the ledger; a second release-all
\* right after it emits no key event, only the sync, and returns no codes.
C10_ReleaseAllRoundTrip ==
    /\ AfterReleaseAllCall =>
         /\ ReleasedOutstanding
         /\ clog[1] = Ups(ccodes[1]) \o <<EvSyn>>
    /\ SecondReleaseAll => clog[1] = <<EvSyn>> /\ ccodes[1] = <<>>

\* a second release-all has returned after a first one that released two
\* codes, one of them pressed twice and another code released before
C10_Witness ==
    /\ SecondReleaseAll
    /\ Len(Before) = MaxHist + 1
    /\ Cardinality(Outstanding(SubSeq(Before, 1, Len(Before) - 1))) = 2
    /\ \E i \in 1..Len(Before) : Before[i][1] = "release"

\* the pressed-sets made of one chosen member of each alternative-set
ChoiceSets(req) ==
    {{f[i] : i \in 1..Len(req)} :
        f \in {g \in [1..Len(req) -> HotkeyCodes] : \A i \in 1..Len(req) : g[i] \in req[i]}}

\* hotkey_satisfied has been applied to the requirement parse_hotkey returned
HkApplied == hk_state = "returned" /\ lastEv.sat = hotkey_satisfied(pressed, trigger_req)

\* the result is true iff every alternative-set intersects the pressed-set
SatIffAllIntersect ==
    hk_state = "returned" =>
        (hotkey_satisfied(pressed, trigger_req)
            <=> \A i \in 1..Len(trigger_req) : trigger_req[i] \cap pressed # {})

\* true for one chosen member of each alternative-set
ChoiceSatisfies ==
    (hk_state = "returned" /\ pressed \in ChoiceSets(trigger_req)) =>
        hotkey_satisfied(pressed, trigger_req)

\* false once any single code is removed from such a pressed-set
RemovalFalsifies ==
    \A c \in pressed : ~hotkey_satisfied(pressed \ {c}, trigger_req)

\* no alternative-set occurs twice in the requirement
NoRepeatedAlt ==
    \A i, j \in 1..Len(trigger_req) : i # j => trigger_req[i] # trigger_req[j]

\* C11 as stated: for every requirement parse_hotkey returns, also from a
\* spec that repeats a token, hotkey_satisfied is true for a pressed-set of
\* one chosen member of each alternative-set and false when any single code
\* is removed from it; it is true iff every alternative-set intersects the
\* pressed-set.
C11_RemovalAlwaysFalsifies ==
    /\ SatIffAllIntersect
    /\ ChoiceSatisfies
    /\ (hk_state = "returned" /\ pressed \in ChoiceSets(trigger_req)) => RemovalFalsifies

\* C11: hotkey_satisfied is true iff every alternative-set intersects the
\* pressed-set, so it is true for a pressed-set of one chosen member of each
\* alternative-set; removing any single code from that pressed-set makes it
\* false when no alternative-set occurs twice in the requirement (with a
\* repeated set and two different members chosen, the other member still
\* satisfies both).
C11_SatisfiedIffAllIntersect ==
    /\ SatIffAllIntersect
    /\ ChoiceSatisfies
    /\ (hk_state = "returned" /\ pressed \in ChoiceSets(trigger_req) /\ NoRepeatedAlt)
          => RemovalFalsifies

\* "<ctrl>+<shift>+e" with ctrl_r, shift_l and e pressed
C11_Witness ==
    /\ hk_state = "returned" /\ Len(trigger_req) = 3 /\ NoRepeatedAlt
    /\ pressed = {KEY_RIGHTCTRL, KEY_LEFTSHIFT, KEY_E}
    /\ pressed \in ChoiceSets(trigger_req)
    /\ lastEv.sat

\* a run of a non-looping macro, started by trigger() with no quit chord
\* configured (so stop() is never called), has ended and the listener is
\* between events
RunCompleted ==
    /\ ~loop /\ ~hasQuit
    /\ thread # 0 /\ NoWorkerAlive /\ ListenerIdle

\* C12: with loop false and no stop(), once the run started from Idle has
\* ended (every pause() having been followed by a resume()), the controller
\* is Idle with an empty ledger.
C12_CompletedRunLeavesLedgerEmpty ==
    (RunCompleted /\ run_event) => (PlaybackState = "Idle" /\ held = {})

\* do_step has raised in worker w: the exception is on its way through the
\* finally clause of _run
Raised(w) == wpc[w] \in {"fin", "fin_w", "end"} /\ wk[w] = 1

\* C13 as stated: when do_step raises, the worker skips the remaining steps,
\* runs release-all and terminates, and as it terminates the ledger is empty
\* and the controller Idle
C13_RaisedRunEndsWithLedgerEmpty ==
    [][\A w \in Workers :
         Raised(w) => /\ wpc'[w] \in {"fin", "fin_w", "end", "dead"}
                      /\ wpc'[w] = "dead" => (held' = {} /\ ~is_running')]_vars

\* the listener is in, or has ended by, request_quit()
QuitCalled == cop[1] = "request_quit"

\* the release-all of the stop() inside request_quit(): the snapshot empties
\* the ledger and every code of the snapshot gets its up event
QuitReleasesLedger ==
    QuitCalled =>
      /\ (cpc[1] = "ra" /\ cpc'[1] # "ra") =>
            /\ held' = {}
            /\ cpc'[1] = "ra_w" => Range(ccodes'[1]) = held
            /\ cpc'[1] = "st3" => held = {}
      /\ (cpc[1] = "ra_w" /\ cpc'[1] = "st3") =>
            clog'[1] = Ups(ccodes[1]) \o <<EvSyn>>

\* listening has ended: the signal is set, the gate is open, release-all has run
QuitDone ==
    ~listening =>
      /\ QuitCalled /\ cpc[1] = "idle"
      /\ stop_event /\ run_event
      /\ clog[1] # <<>> /\ clog[1][Len(clog[1])] = EvSyn

\* with listening ended and the worker gone nothing is held
QuitLeavesNothingHeld == (~listening /\ NoWorkerAlive) => (held = {} /\ Down = {})

\* request_quit() is the only call of its event and runs stop()
QuitNotTrigger ==
    /\ lastEv.quit => ~lastEv.fired
    /\ QuitCalled => cin[1] = "stop"

\* once listening has ended the listener does nothing more
QuitIsLast ==
    ~listening => UNCHANGED <<pressed, trig_armed, quit_armed, lastEv, cVars, listening>>

\* C14: on a rising edge of the quit chord during a run the listener sets the
\* cancellation signal, opens the gate and releases every ledger code before
\* it stops listening; it processes no further key event and does not call
\* trigger() for that event or a later one, also when the event satisfies
\* the trigger chord too
C14_QuitStopsEverything ==
    /\ [](QuitDone /\ QuitNotTrigger /\ QuitLeavesNothingHeld)
    /\ [][QuitReleasesLedger /\ QuitIsLast]_vars

\* the quit chord fired during a run, on an event that satisfied the trigger
\* chord with the trigger armed, and its release-all released a held code
C14_Witness ==
    /\ ~listening
    /\ lastEv.quit /\ lastEv.sat /\ ~lastEv.wasSat
    /\ Len(clog[1]) > 1
    /\ is_running

\* C15 as stated: in every reachable state every code in the ledger is down
\* on the output device
C15_LedgerCodesAreDown == held \subseteq Down

\* worker w is about to execute a non-wait step
AtStep(w) == wpc[w] = "ds" /\ macro[widx[w]].type # "wait"

\* worker w is between steps
BetweenSteps(w) == wpc[w] \in {"for_head", "gate", "loop_top", "loop_gate"}

\* worker w takes a step of its own
Moves(w) == wpc'[w] # wpc[w] \/ widx'[w] # widx[w] \/ wk'[w] # wk[w]

\* a non-wait step begun with the signal set returns at once: no write, no
\* change of the ledger
CancelledStepSkipped ==
    \A w \in Workers :
      (AtStep(w) /\ stop_event /\ Moves(w)) =>
         /\ wpc'[w] = "for_head" /\ widx'[w] = widx[w] + 1
         /\ wlog'[w] = <<>>
         /\ out' = out /\ held' = held

\* with the signal set the worker starts no step
CancelledStartsNoStep ==
    \A w \in Workers :
      (BetweenSteps(w) /\ stop_event /\ Moves(w)) =>
         wpc'[w] \notin {"gate", "ds", "ops", "w_loop", "w_sleep"}

\* the signal stays set as long as the worker that saw it is alive
CancelStays ==
    \A w \in Workers : (Alive(w) /\ stop_event /\ Alive(w)') => stop_event'

\* C16: a non-wait step that begins with the cancellation signal set writes
\* nothing to the device and leaves the ledger as it is, for every kind of
\* non-wait step, and the worker starts no later step of the run
C16_CancelledStepDoesNothing ==
    [][CancelledStepSkipped /\ CancelledStartsNoStep /\ CancelStays]_vars

\* do_step of a combo step has returned without a write, the signal being set
C16_Witness ==
    \E w \in Workers :
      /\ wpc[w] = "for_head" /\ stop_event
      /\ widx[w] = 3 /\ macro[2].type = "combo"
      /\ wlog[w] = <<>>

\* C17 as stated: once pause() has returned, and until the next call of the
\* controller, the worker starts no macro step: its gate test and the start of
\* the step are not separated by the pause()
C17_NoStepStartsAfterPause ==
    [][(AfterPause /\ ~run_event /\ ~stop_event) =>
         \A w \in Workers : ~(AtStep(w) /\ wpc'[w] = "ops")]_vars

\* the listener is inside a controller operation
InFlight == cpc[1] # "idle"

\* the operation in flight can take its next step without a step of the worker
NeverWaitsForWorker == InFlight => ENABLED CallerStep(1)

\* a step of the worker does not touch the controller lock
WorkerLeavesLock == (\E w \in Workers : Alive(w) /\ Moves(w)) => lock' = lock

\* C18: no controller operation waits for the worker: the worker never takes
\* the controller lock, the operation in flight always has a next step
\* whatever the worker does, and every operation called returns
C18_OperationsComplete ==
    /\ []NeverWaitsForWorker
    /\ [][WorkerLeavesLock]_vars
    /\ \A op \in Ops : (InFlight /\ cop[1] = op) ~> ~InFlight

\* pause() has returned while the worker is blocked in a wait with the gate
\* closed
C18_Witness ==
    /\ AfterPause /\ ~run_event /\ ~stop_event
    /\ \E w \in Workers : wpc[w] \in {"w_loop", "w_sleep"}

\* C19 as stated: parse_hotkey fails for a spec with no recognized token, so a
\* requirement it returns is a non-empty sequence of non-empty
\* alternative-sets
C19_NeverEmptyRequirement ==
    hk_state = "returned" =>
      /\ trigger_req # <<>>
      /\ \A i \in 1..Len(trigger_req) : trigger_req[i] # {}

\* the down events for a list of codes, in its order
Downs(codes) == [i \in 1..Len(codes) |-> EvKey(codes[i], 1)]

\* the codes of the combo step worker w is executing
ComboCodes(w) ==
    LET keys == macro[widx[w]].keys IN [i \in 1..Len(keys) |-> parse_macro_key(keys[i])]

\* what a combo of these codes is to emit
ComboEvents(codes) == Downs(codes) \o Ups(Reverse(codes)) \o <<EvSyn>>

IsPrefix(a, b) == Len(a) <= Len(b) /\ a = SubSeq(b, 1, Len(a))

\* worker w is inside a combo step
InCombo(w) == wpc[w] = "ops" /\ macro[widx[w]].type = "combo"

\* C20: a combo step emits down(c1), ..., down(cn), up(cn), ..., up(c1) and
\* then one sync, nothing else, and leaves the ledger as it is, for every
\* list of codes
C20_ComboEvents ==
    [][\A w \in Workers :
         (InCombo(w) /\ Moves(w)) =>
            /\ held' = held
            /\ IsPrefix(wlog'[w], ComboEvents(ComboCodes(w)))
            /\ ~InCombo(w)' => wlog'[w] = ComboEvents(ComboCodes(w))]_vars

\* the combo of a, b, e has run with KEY_A in the ledger
C20_Witness ==
    \E w \in Workers :
      /\ wpc[w] = "for_head" /\ widx[w] = 3
      /\ macro[2].keys = <<"a", "b", "e">>
      /\ wlog[w] = <<EvKey(KEY_A, 1), EvKey(KEY_B, 1), EvKey(KEY_E, 1),
                      EvKey(KEY_E, 0), EvKey(KEY_B, 0), EvKey(KEY_A, 0), EvSyn>>
      /\ held = {KEY_A}

====
